---- MODULE Spec2Model ----
(***************************************************************************)
(* Marketplace canister (src/src/dfinity_js_backend/src/index.ts): the     *)
(* product catalog, the pending-order store with its expiry timers, the    *)
(* completed orders, and the payment verification against the ICP ledger.  *)
(*                                                                         *)
(* Every handler of the canister is one action.  completePurchase is two:  *)
(* the part before `await verifyPayment` and the continuation that runs    *)
(* when the ledger's answer arrives; other messages and timers run in      *)
(* between.  Two later revisions of the canister follow it: the HTTP       *)
(* revision (src/unnamed/part_006) and the ICRC-2 revision                 *)
(* (src/unnamed/part_007).                                                 *)
(***************************************************************************)
EXTENDS Integers, Sequences, FiniteSets, Bags, TLC

(***************************************************************************)
(* Bounds of the model.                                                    *)
(***************************************************************************)
\* the clock stops at MaxTime seconds
MaxTime == 120
\* createOrder is called at most MaxOrders times
MaxOrders == 1
\* completePurchase is called at most MaxCalls times
MaxCalls == 2
\* at most MaxInFlight completePurchase calls are suspended at a time
MaxInFlight == 1
\* the ledger holds at most MaxBlocks blocks
MaxBlocks == 1
\* SpecHistory: createOrder, transfers and completePurchase, MaxHistory times each
MaxHistory == 2
\* SpecVerify: the ledger verifyPayment reads holds at most MaxVerifyBlocks blocks
MaxVerifyBlocks == 2
\* SpecRace: at most MaxConcurrent completePurchase calls are suspended at a time
MaxConcurrent == 2
\* SpecCatalog: createOrder, transfers and completePurchase, MaxCatalogOrders times
MaxCatalogOrders == 1
\* SpecCatalog: the clock stops at MaxCatalogTime seconds
MaxCatalogTime == 60
\* SpecLive: the clock stops at MaxLiveTime seconds
MaxLiveTime == 180
\* SpecLive: createOrder, transfers and completePurchase, MaxLiveOrders times each
MaxLiveOrders == 1
\* SpecShop: createOrder and completePurchase are called MaxShopOrders times each
MaxShopOrders == 2
\* SpecShop: the ledger holds at most MaxShopBlocks blocks
MaxShopBlocks == 1
\* SpecShop: the clock stops at MaxShopTime seconds
MaxShopTime == 120
\* SpecHttp: POST /orders is called at most MaxHttpOrders times
MaxHttpOrders == 1
\* SpecHttp: PUT /orders/:id is called at most MaxHttpCalls times
MaxHttpCalls == 2
\* SpecHttp: the clock stops at MaxHttpTime seconds
MaxHttpTime == 120
\* SpecIcrc: POST /orders reaches its transfer at most MaxIcrcOrders times
MaxIcrcOrders == 2
\* SpecIcrc: at most MaxIcrcInFlight POST /orders are suspended at a time
MaxIcrcInFlight == 2

(***************************************************************************)
(* Program constants.                                                      *)
(***************************************************************************)
ORDER_RESERVATION_PERIOD == 120

(***************************************************************************)
(* hash: BigInt(Math.abs(hashCode().value(input))), with hashCode of the   *)
(* npm package `hashcode`.  Its string hash is the 32-bit wrapping         *)
(* h = 31*h + charCode; value(x) adds the hash of the name of x's type; an *)
(* object is the sum of hash(property + value(obj[property])) over its own *)
(* properties; undefined and null give 0.  The sums are JavaScript numbers *)
(* (no wrap) and may leave the 32-bit range, so a hash value is kept here  *)
(* as a pair <<hi, lo>> standing for hi * 65536 + lo, 0 <= lo < 65536.     *)
(* Strings are sequences of character codes.                               *)
(***************************************************************************)
\* one step of the string hash: (((hash << 5) - hash) + c) & 0xFFFFFFFF, as int32
StringHashStep(h, c) ==
    LET lo == 31 * (h % 65536) + c
        hi == (31 * (h \div 65536) + (lo \div 65536)) % 65536
    IN  (IF hi >= 32768 THEN hi - 65536 ELSE hi) * 65536 + (lo % 65536)

RECURSIVE StringHashFrom(_, _, _)
StringHashFrom(s, i, h) ==
    IF i > Len(s) THEN h ELSE StringHashFrom(s, i + 1, StringHashStep(h, s[i]))

StringHash(s) == StringHashFrom(s, 1, 0)

\* Number.prototype.toString of an integer
RECURSIVE DecimalNat(_)
DecimalNat(n) ==
    IF n < 10 THEN <<48 + n>> ELSE Append(DecimalNat(n \div 10), 48 + (n % 10))

Decimal(n) == IF n < 0 THEN <<45>> \o DecimalNat(0 - n) ELSE DecimalNat(n)

\* the names typeof gives
TypeString == <<115, 116, 114, 105, 110, 103>>
TypeNumber == <<110, 117, 109, 98, 101, 114>>
TypeObject == <<111, 98, 106, 101, 99, 116>>

Limbs(x) == <<x \div 65536, x % 65536>>

AddLimbs(a, b) ==
    LET lo == a[2] + b[2]
    IN  <<a[1] + b[1] + (lo \div 65536), lo % 65536>>

\* Math.abs
AbsLimbs(a) ==
    IF a[1] >= 0 THEN a
    ELSE IF a[2] = 0 THEN <<0 - a[1], 0>>
    ELSE <<(0 - a[1]) - 1, 65536 - a[2]>>

\* value(n) of a number n: hash(n) + hash("number")
NumberValue(n) == StringHash(Decimal(n)) + StringHash(TypeNumber)

\* the sum, over the indices i..Len(bytes) of a Uint8Array, of
\* hash(property + value(obj[property])); the property of index i is i - 1
RECURSIVE ObjectSumFrom(_, _)
ObjectSumFrom(bytes, i) ==
    IF i > Len(bytes) THEN <<0, 0>>
    ELSE AddLimbs(Limbs(StringHash(Decimal(i - 1) \o Decimal(NumberValue(bytes[i])))),
                  ObjectSumFrom(bytes, i + 1))

\* a value handed to hash: a string, a Uint8Array, or undefined
Undefined == [type |-> "undefined"]
Str(s) == [type |-> "string", val |-> s]
Blob(b) == [type |-> "object", val |-> b]

hashCodeValue(input) ==
    CASE input.type = "string" ->
           AddLimbs(Limbs(StringHash(input.val)), Limbs(StringHash(TypeString)))
      [] input.type = "object" ->
           AddLimbs(ObjectSumFrom(input.val, 1), Limbs(StringHash(TypeObject)))
      [] OTHER -> <<0, 0>>

hash(input) == AbsLimbs(hashCodeValue(input))

(***************************************************************************)
(* The values of the model.                                                *)
(***************************************************************************)
\* the identities that call the canister
Principals == {"alice", "bob"}

\* Principal.toText()
PrincipalText(p) == IF p = "alice" THEN <<97, 97>> ELSE <<98, 98>>

\* binaryAddressFromPrincipal(p, 0): the account of a principal, a Uint8Array
\* (two bytes here, 32 in the ledger); one-to-one
binaryAddressFromPrincipal(p) == IF p = "alice" THEN <<0, 1>> ELSE <<1, 1>>

\* the accounts of the ledger: those of the principals and one of nobody here
Addresses == {binaryAddressFromPrincipal(p) : p \in Principals} \cup {<<1, 0>>}

\* the ids uuidv4() hands out, and their characters
ProductIds == {"p1", "p2"}
\* an id for which `${id}_${bob}_${60 s}` has the hash of `${"p1"}_${bob}_${0}`
CollidingId == "pcma72i"
CollidingIdChars == <<112, 99, 109, 97, 55, 50, 105>>
IdChars(id) ==
    IF id = "p1" THEN <<112, 49>>
    ELSE IF id = CollidingId THEN CollidingIdChars
    ELSE <<112, 50>>

Prices == {1, 2}

\* the payloads of addProduct
ProductPayloads ==
    [title : {"t"}, description : {"d"}, location : {"l"}, price : Prices,
     attachmentURL : {"u"}]

\* SpecCatalog: the payloads of addProduct, with an empty title and a price of 0
CatalogPayloads ==
    [title : {"", "t"}, description : {"d"}, location : {"l"}, price : {0, 1},
     attachmentURL : {"u"}]

\* SpecCatalog: the payloads of updateProduct
CatalogProducts ==
    [id : ProductIds, title : {"t"}, description : {"d"}, location : {"l"},
     price : {0, 2}, seller : {"bob"}, attachmentURL : {"u"}, soldAmount : {0}]

\* the payloads of updateProduct: whole products
Products ==
    [id : {"p1"}, title : {"t"}, description : {"d"}, location : {"l"},
     price : {2}, seller : Principals, attachmentURL : {"u"},
     soldAmount : {0}]

\* Opt: None is <<>>, Some(x) is <<x>>
None == << >>
Some(x) == <<x>>

\* StableBTreeMap: a function from the keys present to their values
EmptyMap == << >>
MapInsert(m, k, v) == [x \in DOMAIN m \cup {k} |-> IF x = k THEN v ELSE m[x]]
\* a remove that finds the key and leaves it in the map
MapRemoveKeeps(m, k) == m
MapRemove(m, k) == [x \in DOMAIN m \ {k} |-> m[x]]

VARIABLES
    productsStorage,   \* id -> Product
    persistedOrders,   \* Principal -> Order
    pendingOrders,     \* memo -> Order
    timers,            \* the timers set and not yet run: a bag of [memo, due]
    now,               \* ic.time(), in seconds
    ledger,            \* the blocks of the ICP ledger; block index i is ledger[i + 1]
    calls,             \* the completePurchase calls suspended at `await verifyPayment`
    usedIds,           \* the ids uuidv4() has handed out
    nOrders,           \* history: how many orders createOrder has made
    nCalls,            \* history: how many completePurchase calls were made
    pendingOrd,        \* history: memo -> the number of the order pending under it
    issuedAt,          \* history: memo -> when createOrder last returned it
    verified,          \* history: the tuples verifyPayment returned true for
    completed,         \* history: the orders completePurchase completed
    expired,           \* history: the orders a timer removed
    rejected,          \* history: the memos of the calls that failed verification
    lastResult         \* what the last handler returned

stores == <<productsStorage, persistedOrders, pendingOrders>>
history == <<nOrders, pendingOrd, issuedAt, verified, completed, expired, rejected>>
vars == <<productsStorage, persistedOrders, pendingOrders, timers, now, ledger, calls,
          usedIds, nOrders, nCalls, pendingOrd, issuedAt, verified, completed,
          expired, rejected, lastResult>>

NoResult == [op |-> "none"]

Init ==
    /\ productsStorage = EmptyMap
    /\ persistedOrders = EmptyMap
    /\ pendingOrders = EmptyMap
    /\ timers = EmptyBag
    /\ now = 0
    /\ ledger = << >>
    /\ calls = {}
    /\ usedIds = {}
    /\ nOrders = 0
    /\ nCalls = 0
    /\ pendingOrd = EmptyMap
    /\ issuedAt = EmptyMap
    /\ verified = {}
    /\ completed = {}
    /\ expired = {}
    /\ rejected = {}
    /\ lastResult = NoResult

(***************************************************************************)
(* The product catalog.                                                    *)
(***************************************************************************)
\* an addProduct that returns the product and never inserts it
addProductUnsaved(caller, payload, id) ==
    /\ id \notin usedIds
    /\ DOMAIN payload # {}
    /\ lastResult' = [op |-> "addProduct", kind |-> "Ok",
                      val |-> [id |-> id, soldAmount |-> 0, seller |-> caller,
                               title |-> payload.title,
                               description |-> payload.description,
                               location |-> payload.location, price |-> payload.price,
                               attachmentURL |-> payload.attachmentURL]]
    /\ usedIds' = usedIds \cup {id}
    /\ UNCHANGED <<productsStorage, persistedOrders, pendingOrders, timers, now, ledger,
                   calls, nCalls>>
    /\ UNCHANGED history

\* id is what uuidv4() returns, an id it has not returned before; a payload that
\* is an object without keys is refused
addProduct(caller, payload, id) ==
    /\ id \notin usedIds
    /\ IF DOMAIN payload = {}
       THEN /\ lastResult' = [op |-> "addProduct", kind |-> "NotFound"]
            /\ UNCHANGED <<productsStorage, usedIds>>
       ELSE LET product == [id |-> id, soldAmount |-> 0, seller |-> caller,
                            title |-> payload.title,
                            description |-> payload.description,
                            location |-> payload.location, price |-> payload.price,
                            attachmentURL |-> payload.attachmentURL]
            IN  /\ productsStorage' = MapInsert(productsStorage, product.id, product)
                /\ lastResult' = [op |-> "addProduct", kind |-> "Ok", val |-> product]
                /\ usedIds' = usedIds \cup {id}
    /\ UNCHANGED <<persistedOrders, pendingOrders, timers, now, ledger, calls, nCalls>>
    /\ UNCHANGED history

updateProduct(payload) ==
    /\ IF payload.id \in DOMAIN productsStorage
       THEN /\ productsStorage' =
                  MapInsert(productsStorage, productsStorage[payload.id].id, payload)
            /\ lastResult' = [op |-> "updateProduct", kind |-> "Ok", val |-> payload]
       ELSE /\ productsStorage' = productsStorage
            /\ lastResult' = [op |-> "updateProduct", kind |-> "NotFound",
                              id |-> payload.id]
    /\ UNCHANGED <<persistedOrders, pendingOrders, timers, now, ledger, calls, usedIds,
                   nCalls>>
    /\ UNCHANGED history

\* a deleteProduct that empties the catalog
deleteProductClears(id) ==
    /\ IF id \in DOMAIN productsStorage
       THEN /\ productsStorage' = EmptyMap
            /\ lastResult' = [op |-> "deleteProduct", kind |-> "Ok",
                              id |-> productsStorage[id].id]
       ELSE /\ productsStorage' = productsStorage
            /\ lastResult' = [op |-> "deleteProduct", kind |-> "NotFound", id |-> id]
    /\ UNCHANGED <<persistedOrders, pendingOrders, timers, now, ledger, calls, usedIds,
                   nCalls>>
    /\ UNCHANGED history

deleteProduct(id) ==
    /\ IF id \in DOMAIN productsStorage
       THEN /\ productsStorage' = MapRemove(productsStorage, id)
            /\ lastResult' = [op |-> "deleteProduct", kind |-> "Ok",
                              id |-> productsStorage[id].id]
       ELSE /\ productsStorage' = productsStorage
            /\ lastResult' = [op |-> "deleteProduct", kind |-> "NotFound", id |-> id]
    /\ UNCHANGED <<persistedOrders, pendingOrders, timers, now, ledger, calls, usedIds,
                   nCalls>>
    /\ UNCHANGED history

\* getProduct(id), a query
getProduct(id) ==
    IF id \in DOMAIN productsStorage
    THEN [kind |-> "Ok", val |-> productsStorage[id]]
    ELSE [kind |-> "NotFound", id |-> id]

getProductQuery(id) ==
    /\ lastResult' = [op |-> "getProduct"] @@ getProduct(id)
    /\ UNCHANGED <<productsStorage, persistedOrders, pendingOrders, timers, now, ledger,
                   calls, usedIds, nCalls>>
    /\ UNCHANGED history

\* StableBTreeMap.values(): the values in the order of their keys
PrincipalOrder == <<"alice", "bob">>

getOrders ==
    LET keys == SelectSeq(PrincipalOrder, LAMBDA p : p \in DOMAIN persistedOrders)
    IN  [i \in 1..Len(keys) |-> persistedOrders[keys[i]]]

\* getOrders(), a query; caller is ic.caller(), which the code does not read
getOrdersQuery(caller) ==
    /\ lastResult' = [op |-> "getOrders", caller |-> caller, val |-> getOrders]
    /\ UNCHANGED <<productsStorage, persistedOrders, pendingOrders, timers, now, ledger,
                   calls, usedIds, nCalls>>
    /\ UNCHANGED history

(***************************************************************************)
(* Reservation.                                                            *)
(***************************************************************************)
\* ic.time() is in nanoseconds: the seconds followed by nine zeros
TimeText(t) ==
    IF t = 0 THEN <<48>> ELSE Decimal(t) \o <<48, 48, 48, 48, 48, 48, 48, 48, 48>>

\* `${productId}_${ic.caller().toText()}_${ic.time()}`
CorrelationString(productId, caller, time) ==
    IdChars(productId) \o <<95>> \o PrincipalText(caller) \o <<95>> \o TimeText(time)

\* the hashes of the strings and addresses of the model, computed once
Times == {t \in 0..MaxTime : t % 60 = 0}
HashInputs ==
    {Str(CorrelationString(id, p, t)) :
        id \in ProductIds \cup {CollidingId}, p \in Principals, t \in Times}
    \cup {Blob(a) : a \in Addresses} \cup {Undefined}
hashOf == [input \in HashInputs |-> hash(input)]

generateCorrelationId(productId, caller, time) ==
    hashOf[Str(CorrelationString(productId, caller, time))]

\* a discardByTimeout that sets no timer
discardByTimeoutForgets(memo, delay) == timers

\* ic.setTimer(delay, ...): the timers with one more, due `delay` seconds from now
discardByTimeout(memo, delay) ==
    timers (+) SetToBag({[memo |-> memo, due |-> now + delay]})

\* a createOrder that reserves and sets the timer before it looks the product up
createOrderEager(caller, id) ==
    LET memo == generateCorrelationId(id, caller, now)
        present == id \in DOMAIN productsStorage
        order == [productId |-> id,
                  price |-> IF present THEN productsStorage[id].price ELSE 0,
                  status |-> "PaymentPending",
                  seller |-> IF present THEN productsStorage[id].seller ELSE caller,
                  paid_at_block |-> None, memo |-> memo]
    IN  /\ pendingOrders' = MapInsert(pendingOrders, memo, order)
        /\ timers' = discardByTimeout(memo, ORDER_RESERVATION_PERIOD)
        /\ nOrders' = nOrders + 1
        /\ pendingOrd' = MapInsert(pendingOrd, memo, nOrders + 1)
        /\ issuedAt' = MapInsert(issuedAt, memo, now)
        /\ lastResult' = [op |-> "createOrder", caller |-> caller, id |-> id,
                          kind |-> IF present THEN "Ok" ELSE "NotFound"]
        /\ UNCHANGED <<productsStorage, persistedOrders, now, ledger, calls, usedIds,
                       nCalls, verified, completed, expired, rejected>>

createOrder(caller, id) ==
    /\ IF id \in DOMAIN productsStorage
       THEN LET product == productsStorage[id]
                order == [productId |-> product.id, price |-> product.price,
                          status |-> "PaymentPending", seller |-> product.seller,
                          paid_at_block |-> None,
                          memo |-> generateCorrelationId(id, caller, now)]
            IN  /\ pendingOrders' = MapInsert(pendingOrders, order.memo, order)
                /\ timers' = discardByTimeout(order.memo, ORDER_RESERVATION_PERIOD)
                /\ nOrders' = nOrders + 1
                /\ pendingOrd' = MapInsert(pendingOrd, order.memo, nOrders + 1)
                /\ issuedAt' = MapInsert(issuedAt, order.memo, now)
                /\ lastResult' = [op |-> "createOrder", caller |-> caller, id |-> id,
                                  kind |-> "Ok", val |-> order]
       ELSE /\ lastResult' = [op |-> "createOrder", caller |-> caller, id |-> id,
                              kind |-> "NotFound"]
            /\ UNCHANGED <<pendingOrders, timers, nOrders, pendingOrd, issuedAt>>
    /\ UNCHANGED <<productsStorage, persistedOrders, now, ledger, calls, usedIds, nCalls,
                   verified, completed, expired, rejected>>

\* a timer callback that runs and leaves the order pending
TimerFiresKeeps(t) ==
    /\ BagIn(t, timers)
    /\ now >= t.due
    /\ timers' = timers (-) SetToBag({t})
    /\ expired' = IF t.memo \in DOMAIN pendingOrders
                  THEN expired \cup {[ord |-> pendingOrd[t.memo], memo |-> t.memo,
                                       inflight |-> {c.cid : c \in calls}]}
                  ELSE expired
    /\ UNCHANGED <<productsStorage, persistedOrders, pendingOrders, now, ledger, calls,
                   usedIds, nOrders, nCalls, pendingOrd, issuedAt, verified, completed,
                   rejected, lastResult>>

\* the callback of the timer t: pendingOrders.remove(memo)
TimerFires(t) ==
    /\ BagIn(t, timers)
    /\ now >= t.due
    /\ timers' = timers (-) SetToBag({t})
    /\ pendingOrders' = MapRemove(pendingOrders, t.memo)
    /\ pendingOrd' = MapRemove(pendingOrd, t.memo)
    /\ expired' = IF t.memo \in DOMAIN pendingOrders
                  THEN expired \cup {[ord |-> pendingOrd[t.memo], memo |-> t.memo,
                                       inflight |-> {c.cid : c \in calls}]}
                  ELSE expired
    /\ UNCHANGED <<productsStorage, persistedOrders, now, ledger, calls, usedIds,
                   nOrders, nCalls, issuedAt, verified, completed, rejected,
                   lastResult>>

(***************************************************************************)
(* The ICP ledger, as the canister sees it.  A block is                    *)
(* [memo, operation]; operation is an Opt of a Transfer {from, to, amount} *)
(* or of another operation (Mint {to, amount}).                            *)
(***************************************************************************)
Transfer(from, to, amount) ==
    [kind |-> "Transfer", from |-> from, to |-> to, amount |-> amount]
Mint(to, amount) == [kind |-> "Mint", to |-> to, amount |-> amount]

\* the memos createOrder has returned so far
IssuedMemos == DOMAIN issuedAt

\* the memos a transfer can carry now: createOrder's answer reaches the buyer when
\* its round is over, so the transfer is made at a later ic.time()
PayableMemos == {m \in IssuedMemos : issuedAt[m] < now}

\* somebody transfers, or the minter mints: the ledger appends the block
LedgerAppend(block) ==
    /\ ledger' = Append(ledger, block)
    /\ UNCHANGED <<productsStorage, persistedOrders, pendingOrders, timers, now, calls,
                   usedIds, nCalls, lastResult>>
    /\ UNCHANGED history

\* icpCanister.query_blocks({ start, length: 1n }) when the ledger answers
query_blocks(start) ==
    [kind |-> "Ok",
     blocks |-> IF start < Len(ledger) THEN <<ledger[start + 1]>> ELSE << >>]

\* the call failed: the ledger rejected it or could not be reached
QueryErr == [kind |-> "Err"]

(***************************************************************************)
(* Payment verification.                                                   *)
(***************************************************************************)
\* operation.Transfer?.from and operation.Transfer?.to
TransferFrom(operation) ==
    IF operation.kind = "Transfer" THEN Blob(operation.from) ELSE Undefined
TransferTo(operation) ==
    IF operation.kind = "Transfer" THEN Blob(operation.to) ELSE Undefined

\* amount === operation.Transfer?.amount.e8s
AmountIs(amount, operation) ==
    operation.kind = "Transfer" /\ amount = operation.amount

\* the predicate of blockData.blocks.find
BlockMatches(block, caller, receiver, amount, memo) ==
    IF block.operation = None THEN FALSE
    ELSE LET operation == block.operation[1]
             senderAddress == binaryAddressFromPrincipal(caller)
             receiverAddress == binaryAddressFromPrincipal(receiver)
         IN  /\ block.memo = memo
             /\ hashOf[Blob(senderAddress)] = hashOf[TransferFrom(operation)]
             /\ hashOf[Blob(receiverAddress)] = hashOf[TransferTo(operation)]
             /\ AmountIs(amount, operation)

\* a verifyPayment that takes a failed query_blocks call for a payment
verifyPaymentFailOpen(caller, receiver, amount, memo, reply) ==
    IF reply.kind = "Ok"
    THEN \E i \in 1..Len(reply.blocks) :
            BlockMatches(reply.blocks[i], caller, receiver, amount, memo)
    ELSE TRUE

\* verifyPayment, given the answer to its query_blocks call
verifyPayment(caller, receiver, amount, memo, reply) ==
    IF reply.kind = "Ok"
    THEN \E i \in 1..Len(reply.blocks) :
            BlockMatches(reply.blocks[i], caller, receiver, amount, memo)
    ELSE FALSE

(***************************************************************************)
(* completePurchase.                                                       *)
(***************************************************************************)
\* the catalog after updateSoldAmount(productId); it throws when the product is absent
updateSoldAmountThrows(productId) == productId \notin DOMAIN productsStorage

\* an updateSoldAmount that counts the sale twice
updateSoldAmountTwice(productId) ==
    LET product == productsStorage[productId]
    IN  MapInsert(productsStorage, product.id,
                  [product EXCEPT !.soldAmount = product.soldAmount + 2])

updateSoldAmount(productId) ==
    LET product == productsStorage[productId]
    IN  MapInsert(productsStorage, product.id,
                  [product EXCEPT !.soldAmount = product.soldAmount + 1])

\* up to `await verifyPayment(...)`: the query_blocks call leaves for the ledger
completePurchaseCall(caller, seller, id, price, block, memo) ==
    /\ nCalls' = nCalls + 1
    /\ calls' = calls \cup {[cid |-> nCalls + 1, caller |-> caller, seller |-> seller,
                             id |-> id, price |-> price, block |-> block,
                             memo |-> memo]}
    /\ UNCHANGED <<productsStorage, persistedOrders, pendingOrders, timers, now, ledger,
                   usedIds, lastResult>>
    /\ UNCHANGED history

\* what completePurchase returns to the call c
Returned(c, reply, paymentVerified, kind) ==
    [op |-> "completePurchase", call |-> c, reply |-> reply.kind,
     verified |-> paymentVerified, kind |-> kind]

\* a completePurchase that goes on whatever verifyPayment returned
completePurchaseResumeUnchecked(c, reply) ==
    /\ c \in calls
    /\ calls' = calls \ {c}
    /\ UNCHANGED <<verified, rejected>>
    /\ IF c.memo \notin DOMAIN pendingOrders
       THEN /\ lastResult' = Returned(c, reply, TRUE, "NotFound")
            /\ UNCHANGED <<productsStorage, persistedOrders, pendingOrders,
                           pendingOrd, completed>>
       ELSE IF updateSoldAmountThrows(c.id)
       THEN /\ lastResult' = Returned(c, reply, TRUE, "Trap")
            /\ UNCHANGED <<productsStorage, persistedOrders, pendingOrders,
                           pendingOrd, completed>>
       ELSE LET order == pendingOrders[c.memo]
                updatedOrder == [order EXCEPT !.status = "Completed",
                                              !.paid_at_block = Some(c.block)]
            IN  /\ pendingOrders' = MapRemove(pendingOrders, c.memo)
                /\ productsStorage' = updateSoldAmount(c.id)
                /\ persistedOrders' = MapInsert(persistedOrders, c.caller, updatedOrder)
                /\ pendingOrd' = MapRemove(pendingOrd, c.memo)
                /\ completed' = completed \cup
                      {[ord |-> pendingOrd[c.memo], cid |-> c.cid, memo |-> c.memo]}
                /\ lastResult' = Returned(c, reply, TRUE, "Ok") @@ [val |-> updatedOrder]
    /\ UNCHANGED <<timers, now, ledger, usedIds, nOrders, nCalls, issuedAt, expired>>

\* a completePurchase whose exception leaves behind what ran before it: the order
\* removed from pendingOrders stays removed
completePurchaseResumeNoRollback(c, reply) ==
    LET paymentVerified == verifyPayment(c.caller, c.seller, c.price, c.memo, reply)
    IN  /\ c \in calls
        /\ calls' = calls \ {c}
        /\ verified' = IF paymentVerified
                       THEN verified \cup {[sender |-> c.caller, receiver |-> c.seller,
                                            amount |-> c.price, block |-> c.block,
                                            memo |-> c.memo]}
                       ELSE verified
        /\ rejected' = IF paymentVerified THEN rejected ELSE rejected \cup {c.memo}
        /\ IF ~paymentVerified
           THEN /\ lastResult' = Returned(c, reply, FALSE, "NotFound")
                /\ UNCHANGED <<productsStorage, persistedOrders, pendingOrders,
                               pendingOrd, completed>>
           ELSE IF c.memo \notin DOMAIN pendingOrders
           THEN /\ lastResult' = Returned(c, reply, TRUE, "NotFound")
                /\ UNCHANGED <<productsStorage, persistedOrders, pendingOrders,
                               pendingOrd, completed>>
           ELSE IF updateSoldAmountThrows(c.id)
           THEN /\ lastResult' = Returned(c, reply, TRUE, "Trap")
                /\ pendingOrders' = MapRemove(pendingOrders, c.memo)
                /\ pendingOrd' = MapRemove(pendingOrd, c.memo)
                /\ UNCHANGED <<productsStorage, persistedOrders, completed>>
           ELSE LET order == pendingOrders[c.memo]
                    updatedOrder == [order EXCEPT !.status = "Completed",
                                                  !.paid_at_block = Some(c.block)]
                IN  /\ pendingOrders' = MapRemove(pendingOrders, c.memo)
                    /\ productsStorage' = updateSoldAmount(c.id)
                    /\ persistedOrders' = MapInsert(persistedOrders, c.caller, updatedOrder)
                    /\ pendingOrd' = MapRemove(pendingOrd, c.memo)
                    /\ completed' = completed \cup
                          {[ord |-> pendingOrd[c.memo], cid |-> c.cid, memo |-> c.memo]}
                    /\ lastResult' =
                          [Returned(c, reply, TRUE, "Ok") EXCEPT !.kind = "Ok"]
                             @@ [val |-> updatedOrder]
        /\ UNCHANGED <<timers, now, ledger, usedIds, nOrders, nCalls, issuedAt, expired>>

\* the rest of completePurchase, run when the answer `reply` arrives.  An exception
\* thrown here traps the message: the canister's state is as before it ran.
completePurchaseResume(c, reply) ==
    LET paymentVerified == verifyPayment(c.caller, c.seller, c.price, c.memo, reply)
    IN  /\ c \in calls
        /\ calls' = calls \ {c}
        /\ verified' = IF paymentVerified
                       THEN verified \cup {[sender |-> c.caller, receiver |-> c.seller,
                                            amount |-> c.price, block |-> c.block,
                                            memo |-> c.memo]}
                       ELSE verified
        /\ rejected' = IF paymentVerified THEN rejected ELSE rejected \cup {c.memo}
        /\ IF ~paymentVerified
           THEN /\ lastResult' = Returned(c, reply, FALSE, "NotFound")
                /\ UNCHANGED <<productsStorage, persistedOrders, pendingOrders,
                               pendingOrd, completed>>
           ELSE IF c.memo \notin DOMAIN pendingOrders
           THEN /\ lastResult' = Returned(c, reply, TRUE, "NotFound")
                /\ UNCHANGED <<productsStorage, persistedOrders, pendingOrders,
                               pendingOrd, completed>>
           ELSE IF updateSoldAmountThrows(c.id)
           THEN /\ lastResult' = Returned(c, reply, TRUE, "Trap")
                /\ UNCHANGED <<productsStorage, persistedOrders, pendingOrders,
                               pendingOrd, completed>>
           ELSE LET order == pendingOrders[c.memo]
                    updatedOrder == [order EXCEPT !.status = "Completed",
                                                  !.paid_at_block = Some(c.block)]
                IN  /\ pendingOrders' = MapRemove(pendingOrders, c.memo)
                    /\ productsStorage' = updateSoldAmount(c.id)
                    /\ persistedOrders' = MapInsert(persistedOrders, c.caller, updatedOrder)
                    /\ pendingOrd' = MapRemove(pendingOrd, c.memo)
                    /\ completed' = completed \cup
                          {[ord |-> pendingOrd[c.memo], cid |-> c.cid, memo |-> c.memo]}
                    /\ lastResult' =
                          [Returned(c, reply, TRUE, "Ok") EXCEPT !.kind = "Ok"]
                             @@ [val |-> updatedOrder]
        /\ UNCHANGED <<timers, now, ledger, usedIds, nOrders, nCalls, issuedAt, expired>>

\* the exported query verifyPayment, called on its own
verifyPaymentQuery(caller, receiver, amount, block, memo, reply) ==
    /\ lastResult' = [op |-> "verifyPayment", caller |-> caller, receiver |-> receiver,
                      amount |-> amount, block |-> block, memo |-> memo,
                      reply |-> reply.kind,
                      val |-> verifyPayment(caller, receiver, amount, memo, reply)]
    /\ UNCHANGED <<productsStorage, persistedOrders, pendingOrders, timers, now, ledger,
                   calls, usedIds, nCalls>>
    /\ UNCHANGED history

(***************************************************************************)
(* The clock, and what the environment does.                               *)
(***************************************************************************)
Tick ==
    /\ now' = now + 60
    /\ UNCHANGED <<productsStorage, persistedOrders, pendingOrders, timers, ledger,
                   calls, usedIds, nCalls, lastResult>>
    /\ UNCHANGED history

\* the transfers the principals make among themselves for the memos they know
Blocks ==
    {[memo |-> m, operation |-> Some(Transfer(binaryAddressFromPrincipal(p),
                                              binaryAddressFromPrincipal(q), a))] :
        m \in PayableMemos, p \in Principals, q \in Principals, a \in Prices}

(***************************************************************************)
(* Spec: one product id is handed out, every input of the order handlers   *)
(* varies.                                                                 *)
(***************************************************************************)
Next ==
    \/ \E caller \in Principals, payload \in ProductPayloads :
          addProduct(caller, payload, "p1")
    \/ \E payload \in Products : updateProduct(payload)
    \/ \E id \in ProductIds : deleteProduct(id)
    \/ \E caller \in Principals, id \in ProductIds :
          nOrders < MaxOrders /\ createOrder(caller, id)
    \/ \E t \in BagToSet(timers) : TimerFires(t)
    \/ \E block \in Blocks : Len(ledger) < MaxBlocks /\ LedgerAppend(block)
    \/ \E caller \in Principals, seller \in Principals, price \in Prices,
          block \in 0..(MaxBlocks - 1), memo \in IssuedMemos :
          /\ nCalls < MaxCalls
          /\ Cardinality(calls) < MaxInFlight
          /\ completePurchaseCall(caller, seller, "p1", price, block, memo)
    \/ \E c \in calls : completePurchaseResume(c, query_blocks(c.block))
    \/ \E c \in calls : completePurchaseResume(c, QueryErr)
    \/ now + 60 <= MaxTime /\ Tick

Spec == Init /\ [][Next]_vars

(***************************************************************************)
(* SpecHistory: one buyer pays the seller's price for one order after the  *)
(* other.                                                                  *)
(***************************************************************************)
HonestBlocks ==
    {[memo |-> m, operation |-> Some(Transfer(binaryAddressFromPrincipal("bob"),
                                              binaryAddressFromPrincipal("alice"), 1))] :
        m \in PayableMemos}

NextHistory ==
    \/ \E payload \in {x \in ProductPayloads : x.price = 1} :
          addProduct("alice", payload, "p1")
    \/ nOrders < MaxHistory /\ createOrder("bob", "p1")
    \/ \E t \in BagToSet(timers) : TimerFires(t)
    \/ \E block \in HonestBlocks : Len(ledger) < MaxHistory /\ LedgerAppend(block)
    \/ \E block \in 0..(MaxHistory - 1), memo \in IssuedMemos :
          /\ nCalls < MaxHistory
          /\ calls = {}
          /\ completePurchaseCall("bob", "alice", "p1", 1, block, memo)
    \/ \E c \in calls : completePurchaseResume(c, query_blocks(c.block))
    \/ now + 60 <= MaxTime /\ Tick

SpecHistory == Init /\ [][NextHistory]_vars

(***************************************************************************)
(* SpecVerify: verifyPayment as a function of its arguments and of the     *)
(* ledger, which is any ledger of at most MaxVerifyBlocks blocks.          *)
(***************************************************************************)
VerifyMemos == {<<0, 1>>, <<0, 2>>}

VerifyBlocks ==
    {[memo |-> m, operation |-> Some(Transfer(from, to, a))] :
        m \in VerifyMemos, from \in Addresses, to \in Addresses, a \in Prices}
    \cup {[memo |-> m, operation |-> Some(Mint(to, a))] :
        m \in VerifyMemos, to \in Addresses, a \in Prices}
    \cup {[memo |-> m, operation |-> None] : m \in VerifyMemos}

RECURSIVE LedgersUpTo(_)
LedgersUpTo(n) ==
    IF n = 0 THEN {<< >>}
    ELSE LedgersUpTo(n - 1)
         \cup {Append(l, b) : l \in {x \in LedgersUpTo(n - 1) : Len(x) = n - 1},
                              b \in VerifyBlocks}

InitVerify ==
    /\ productsStorage = EmptyMap
    /\ persistedOrders = EmptyMap
    /\ pendingOrders = EmptyMap
    /\ timers = EmptyBag
    /\ now = 0
    /\ ledger \in LedgersUpTo(MaxVerifyBlocks)
    /\ calls = {}
    /\ usedIds = {}
    /\ nOrders = 0
    /\ nCalls = 0
    /\ pendingOrd = EmptyMap
    /\ issuedAt = EmptyMap
    /\ verified = {}
    /\ completed = {}
    /\ expired = {}
    /\ rejected = {}
    /\ lastResult = NoResult

NextVerify ==
    \/ \E caller \in Principals, receiver \in Principals, amount \in Prices,
          block \in 0..MaxVerifyBlocks, memo \in VerifyMemos :
          verifyPaymentQuery(caller, receiver, amount, block, memo, query_blocks(block))
    \/ \E caller \in Principals, receiver \in Principals, amount \in Prices,
          block \in 0..MaxVerifyBlocks, memo \in VerifyMemos :
          verifyPaymentQuery(caller, receiver, amount, block, memo, QueryErr)

SpecVerify == InitVerify /\ [][NextVerify]_vars

(***************************************************************************)
(* SpecRace: the buyer's completePurchase calls overlap; the seller may    *)
(* delete the product, and the buyer may name either id.                   *)
(***************************************************************************)
NextRace ==
    \/ \E payload \in {x \in ProductPayloads : x.price = 1} :
          addProduct("alice", payload, "p1")
    \/ deleteProduct("p1")
    \/ nOrders < MaxOrders /\ createOrder("bob", "p1")
    \/ \E t \in BagToSet(timers) : TimerFires(t)
    \/ \E block \in HonestBlocks : Len(ledger) < MaxBlocks /\ LedgerAppend(block)
    \/ \E id \in ProductIds, block \in 0..(MaxBlocks - 1), memo \in IssuedMemos :
          /\ nCalls < MaxCalls
          /\ Cardinality(calls) < MaxConcurrent
          /\ completePurchaseCall("bob", "alice", id, 1, block, memo)
    \/ \E c \in calls : completePurchaseResume(c, query_blocks(c.block))
    \/ now + 60 <= MaxTime /\ Tick

SpecRace == Init /\ [][NextRace]_vars

(***************************************************************************)
(* SpecLive: the purchases of one buyer, with the scheduling the IC gives: *)
(* time passes, and a timer that is due runs.  Orders are made while their *)
(* 120 seconds end before the clock of the model stops; the seller may     *)
(* delete the product.                                                     *)
(***************************************************************************)
TickLive == now + 60 <= MaxLiveTime /\ Tick

TimerRuns == \E t \in BagToSet(timers) : TimerFires(t)

NextLive ==
    \/ \E payload \in {x \in ProductPayloads : x.price = 1} :
          addProduct("alice", payload, "p1")
    \/ deleteProduct("p1")
    \/ /\ nOrders < MaxLiveOrders
       /\ now + ORDER_RESERVATION_PERIOD <= MaxLiveTime
       /\ createOrder("bob", "p1")
    \/ TimerRuns
    \/ \E block \in HonestBlocks : Len(ledger) < MaxLiveOrders /\ LedgerAppend(block)
    \/ \E block \in 0..(MaxLiveOrders - 1), memo \in IssuedMemos :
          /\ nCalls < MaxLiveOrders
          /\ calls = {}
          /\ completePurchaseCall("bob", "alice", "p1", 1, block, memo)
    \/ \E c \in calls : completePurchaseResume(c, query_blocks(c.block))
    \/ TickLive

SpecLive == Init /\ [][NextLive]_vars /\ WF_vars(TickLive) /\ WF_vars(TimerRuns)

(***************************************************************************)
(* SpecCatalog: the catalog handlers with every id and payload, next to    *)
(* the purchases of one buyer.                                             *)
(***************************************************************************)
NextCatalog ==
    \/ \E caller \in Principals, payload \in CatalogPayloads, id \in ProductIds :
          addProduct(caller, payload, id)
    \/ \E payload \in CatalogProducts : updateProduct(payload)
    \/ \E id \in ProductIds : deleteProduct(id)
    \/ \E id \in ProductIds : getProductQuery(id)
    \/ \E caller \in Principals : getOrdersQuery(caller)
    \/ nOrders < MaxCatalogOrders /\ createOrder("bob", "p1")
    \/ \E block \in HonestBlocks :
          Len(ledger) < MaxCatalogOrders /\ LedgerAppend(block)
    \/ \E memo \in IssuedMemos :
          /\ nCalls < MaxCatalogOrders
          /\ calls = {}
          /\ completePurchaseCall("bob", "alice", "p1", 1, 0, memo)
    \/ \E c \in calls : completePurchaseResume(c, query_blocks(c.block))
    \/ now + 60 <= MaxCatalogTime /\ Tick

SpecCatalog == Init /\ [][NextCatalog]_vars

(***************************************************************************)
(* SpecShop: alice lists two products, "p1" and one whose id uuidv4() made *)
(* CollidingId; bob orders and pays either, and names either id when he    *)
(* completes.                                                              *)
(***************************************************************************)
ShopIds == {"p1", CollidingId}

NextShop ==
    \/ \E payload \in {x \in ProductPayloads : x.price = 1}, id \in ShopIds :
          addProduct("alice", payload, id)
    \/ \E id \in ShopIds : nOrders < MaxShopOrders /\ createOrder("bob", id)
    \/ TimerRuns
    \/ \E block \in HonestBlocks : Len(ledger) < MaxShopBlocks /\ LedgerAppend(block)
    \/ \E id \in ShopIds, block \in 0..(MaxShopBlocks - 1), memo \in IssuedMemos :
          /\ nCalls < MaxShopOrders
          /\ calls = {}
          /\ completePurchaseCall("bob", "alice", id, 1, block, memo)
    \/ \E c \in calls : completePurchaseResume(c, query_blocks(c.block))
    \/ now + 60 <= MaxShopTime /\ Tick

SpecShop == Init /\ [][NextShop]_vars

(***************************************************************************)
(* The HTTP revision of the canister (src/unnamed/part_006): the same      *)
(* three stores behind Express routes.  A memo is kept as the number it    *)
(* names (the store keys it by its decimal text); null is None.  The       *)
(* fields of a request body are taken at the types the handlers use them   *)
(* at.                                                                     *)
(***************************************************************************)
\* app.post("/products"); id is what uuidv4() returns
postProduct(caller, payload, id) ==
    /\ id \notin usedIds
    /\ LET product == [id |-> id, soldAmount |-> 0, seller |-> caller,
                       title |-> payload.title, description |-> payload.description,
                       location |-> payload.location, price |-> payload.price,
                       attachmentURL |-> payload.attachmentURL]
       IN  /\ productsStorage' = MapInsert(productsStorage, product.id, product)
           /\ lastResult' = [op |-> "POST /products", kind |-> "Ok", val |-> product]
    /\ usedIds' = usedIds \cup {id}
    /\ UNCHANGED <<persistedOrders, pendingOrders, timers, now, ledger, calls, nCalls>>
    /\ UNCHANGED history

\* app.post("/orders"): the product is req.body.productId, the memo is made from
\* req.body.id
postOrder(caller, productId, id) ==
    /\ IF productId \notin DOMAIN productsStorage
       THEN /\ lastResult' = [op |-> "POST /orders", kind |-> "NotFound"]
            /\ UNCHANGED <<pendingOrders, timers, nOrders, pendingOrd, issuedAt>>
       ELSE LET product == productsStorage[productId]
                order == [productId |-> product.id, price |-> product.price,
                          status |-> "PaymentPending", seller |-> product.seller,
                          paid_at_block |-> None,
                          memo |-> generateCorrelationId(id, caller, now)]
            IN  /\ pendingOrders' = MapInsert(pendingOrders, order.memo, order)
                /\ timers' = discardByTimeout(order.memo, ORDER_RESERVATION_PERIOD)
                /\ nOrders' = nOrders + 1
                /\ pendingOrd' = MapInsert(pendingOrd, order.memo, nOrders + 1)
                /\ issuedAt' = MapInsert(issuedAt, order.memo, now)
                /\ lastResult' = [op |-> "POST /orders", kind |-> "Ok", val |-> order]
    /\ UNCHANGED <<productsStorage, persistedOrders, now, ledger, calls, usedIds, nCalls,
                   verified, completed, expired, rejected>>

\* the callback discardByTimeout sets: pendingOrders.remove(memo)
HttpTimerFires(t) == TimerFires(t)

\* app.delete("/pending-orders/:memo")
deletePendingOrder(memo) ==
    /\ IF memo \in DOMAIN pendingOrders
       THEN /\ pendingOrders' = MapRemove(pendingOrders, memo)
            /\ pendingOrd' = MapRemove(pendingOrd, memo)
            /\ lastResult' = [op |-> "DELETE /pending-orders/:memo", kind |-> "Ok",
                              val |-> pendingOrders[memo]]
       ELSE /\ lastResult' = [op |-> "DELETE /pending-orders/:memo",
                              kind |-> "BadRequest"]
            /\ UNCHANGED <<pendingOrders, pendingOrd>>
    /\ UNCHANGED <<productsStorage, persistedOrders, timers, now, ledger, calls, usedIds,
                   nOrders, nCalls, issuedAt, verified, completed, expired, rejected>>

\* verifyPaymentInternal, given the blocks query_blocks answered with; the predicate
\* of its blocks.find is that of index.ts
verifyPaymentInternal(caller, receiver, amount, memo, reply) ==
    \E i \in 1..Len(reply.blocks) :
        BlockMatches(reply.blocks[i], caller, receiver, amount, memo)

\* app.put("/orders/:id") up to `await verifyPaymentInternal(...)`
putOrderCall(caller, seller, id, price, block, memo) ==
    /\ nCalls' = nCalls + 1
    /\ calls' = calls \cup {[cid |-> nCalls + 1, caller |-> caller, seller |-> seller,
                             id |-> id, price |-> price, block |-> block,
                             memo |-> memo]}
    /\ UNCHANGED <<productsStorage, persistedOrders, pendingOrders, timers, now, ledger,
                   usedIds, lastResult>>
    /\ UNCHANGED history

\* what PUT /orders/:id answers to the call c
Answered(c, paymentVerified, kind) ==
    [op |-> "PUT /orders/:id", call |-> c, verified |-> paymentVerified, kind |-> kind]

\* the rest of app.put("/orders/:id"), run when the ledger's blocks arrive.  The
\* handler returns after res.status(404): nothing is thrown, and what it wrote stays.
putOrderResume(c, reply) ==
    LET paymentVerified == verifyPaymentInternal(c.caller, c.seller, c.price, c.memo, reply)
    IN  /\ c \in calls
        /\ calls' = calls \ {c}
        /\ IF ~paymentVerified
           THEN /\ lastResult' = Answered(c, FALSE, "NotVerified")
                /\ UNCHANGED <<productsStorage, persistedOrders, pendingOrders,
                               pendingOrd, completed>>
           ELSE IF c.memo \notin DOMAIN pendingOrders
           THEN /\ lastResult' = Answered(c, TRUE, "NoPendingOrder")
                /\ UNCHANGED <<productsStorage, persistedOrders, pendingOrders,
                               pendingOrd, completed>>
           ELSE IF c.id \notin DOMAIN productsStorage
           THEN /\ pendingOrders' = MapRemove(pendingOrders, c.memo)
                /\ pendingOrd' = MapRemove(pendingOrd, c.memo)
                /\ lastResult' = Answered(c, TRUE, "ProductNotFound")
                /\ UNCHANGED <<productsStorage, persistedOrders, completed>>
           ELSE LET order == pendingOrders[c.memo]
                    updatedOrder == [order EXCEPT !.status = "Completed",
                                                  !.paid_at_block = Some(c.block)]
                    product == productsStorage[c.id]
                IN  /\ pendingOrders' = MapRemove(pendingOrders, c.memo)
                    /\ productsStorage' =
                          MapInsert(productsStorage, product.id,
                                    [product EXCEPT !.soldAmount = product.soldAmount + 1])
                    /\ persistedOrders' = MapInsert(persistedOrders, c.caller, updatedOrder)
                    /\ pendingOrd' = MapRemove(pendingOrd, c.memo)
                    /\ completed' = completed \cup
                          {[ord |-> pendingOrd[c.memo], cid |-> c.cid, memo |-> c.memo]}
                    /\ lastResult' = Answered(c, TRUE, "Ok") @@ [val |-> updatedOrder]
        /\ UNCHANGED <<timers, now, ledger, usedIds, nOrders, nCalls, issuedAt, verified,
                       expired, rejected>>

(***************************************************************************)
(* SpecHttp: the HTTP revision.  alice lists a product, bob orders and     *)
(* pays it and names either id when he completes; anyone deletes pending   *)
(* orders.                                                                 *)
(***************************************************************************)
NextHttp ==
    \/ \E payload \in {x \in ProductPayloads : x.price = 1} :
          postProduct("alice", payload, "p1")
    \/ \E productId \in ProductIds, id \in ProductIds :
          nOrders < MaxHttpOrders /\ postOrder("bob", productId, id)
    \/ \E t \in BagToSet(timers) : HttpTimerFires(t)
    \/ \E memo \in IssuedMemos : deletePendingOrder(memo)
    \/ \E block \in HonestBlocks : Len(ledger) < MaxHttpOrders /\ LedgerAppend(block)
    \/ \E id \in ProductIds, memo \in IssuedMemos :
          /\ nCalls < MaxHttpCalls
          /\ calls = {}
          /\ putOrderCall("bob", "alice", id, 1, 0, memo)
    \/ \E c \in calls : putOrderResume(c, query_blocks(c.block))
    \/ now + 60 <= MaxHttpTime /\ Tick

SpecHttp == Init /\ [][NextHttp]_vars

(***************************************************************************)
(* The ICRC-2 revision of the canister (src/unnamed/part_007): the catalog *)
(* and one store of orders, kept here in persistedOrders under the ids     *)
(* uuidv4() hands out.  POST /orders is two steps: up to                   *)
(* `await allowanceTransfer(...)`, and the rest when the token ledger has  *)
(* answered.                                                               *)
(***************************************************************************)
orders == persistedOrders

\* the ids uuidv4() hands out for orders
OrderIds == {"o1", "o2", "o3"}

\* what the call of icrc2_transfer_from comes back with: the variant Ok or Err, or
\* a failure of the call, which ic.call throws
IcrcReplies == {[kind |-> "Ok"], [kind |-> "Err"], [kind |-> "Reject"]}

\* app.post("/products")
IcrcPostProduct(caller, payload, id) == postProduct(caller, payload, id)

\* app.delete("/products/:id")
IcrcDeleteProduct(id) ==
    /\ IF id \in DOMAIN productsStorage
       THEN /\ productsStorage' = MapRemove(productsStorage, id)
            /\ lastResult' = [op |-> "DELETE /products/:id", kind |-> "Ok",
                              val |-> productsStorage[id]]
       ELSE /\ productsStorage' = productsStorage
            /\ lastResult' = [op |-> "DELETE /products/:id", kind |-> "BadRequest"]
    /\ UNCHANGED <<persistedOrders, pendingOrders, timers, now, ledger, calls, usedIds,
                   nCalls>>
    /\ UNCHANGED history

\* app.post("/orders") up to `await allowanceTransfer(product.seller, ...)`: the
\* product read here is the one the rest of the handler works on
IcrcPostOrderCall(caller, productId) ==
    /\ IF productId \notin DOMAIN productsStorage
       THEN /\ lastResult' = [op |-> "POST /orders", kind |-> "NotFound"]
            /\ UNCHANGED <<calls, nCalls>>
       ELSE /\ nCalls' = nCalls + 1
            /\ calls' = calls \cup {[cid |-> nCalls + 1, caller |-> caller,
                                     product |-> productsStorage[productId]]}
            /\ lastResult' = lastResult
    /\ UNCHANGED <<productsStorage, persistedOrders, pendingOrders, timers, now, ledger,
                   usedIds>>
    /\ UNCHANGED history

\* a POST /orders that does not look at what the transfer returned
IcrcPostOrderResumeUnchecked(c, reply, id) ==
    /\ c \in calls
    /\ id \notin usedIds
    /\ calls' = calls \ {c}
    /\ LET product == c.product
           order == [productId |-> product.id, price |-> product.price,
                     status |-> "Completed", seller |-> product.seller]
       IN  /\ orders' = MapInsert(orders, id, order)
           /\ productsStorage' =
                 MapInsert(productsStorage, product.id,
                           [product EXCEPT !.soldAmount = product.soldAmount + 1])
           /\ usedIds' = usedIds \cup {id}
           /\ lastResult' = [op |-> "POST /orders", kind |-> "Ok", call |-> c,
                             reply |-> reply.kind, orderId |-> id]
    /\ UNCHANGED <<pendingOrders, timers, now, ledger, nCalls>>
    /\ UNCHANGED history

\* the rest of app.post("/orders"), run when the answer to icrc2_transfer_from
\* arrives; id is what uuidv4() returns
IcrcPostOrderResume(c, reply, id) ==
    /\ c \in calls
    /\ calls' = calls \ {c}
    /\ IF reply.kind = "Reject"
       THEN /\ lastResult' = [op |-> "POST /orders", kind |-> "Thrown", call |-> c,
                              reply |-> reply.kind]
            /\ UNCHANGED <<productsStorage, persistedOrders, usedIds>>
       ELSE IF reply.kind = "Err"
       THEN /\ lastResult' = [op |-> "POST /orders", kind |-> "TransferErr", call |-> c,
                              reply |-> reply.kind]
            /\ UNCHANGED <<productsStorage, persistedOrders, usedIds>>
       ELSE LET product == c.product
                order == [productId |-> product.id, price |-> product.price,
                          status |-> "Completed", seller |-> product.seller]
            IN  /\ id \notin usedIds
                /\ orders' = MapInsert(orders, id, order)
                /\ productsStorage' =
                      MapInsert(productsStorage, product.id,
                                [product EXCEPT !.soldAmount = product.soldAmount + 1])
                /\ usedIds' = usedIds \cup {id}
                /\ lastResult' = [op |-> "POST /orders", kind |-> "Ok", call |-> c,
                                  reply |-> reply.kind, orderId |-> id]
    /\ UNCHANGED <<pendingOrders, timers, now, ledger, nCalls>>
    /\ UNCHANGED history

(***************************************************************************)
(* SpecIcrc: the ICRC-2 revision.  alice lists and deletes products, alice *)
(* and bob order them; orders overlap.                                     *)
(***************************************************************************)
NextIcrc ==
    \/ \E payload \in ProductPayloads, id \in ProductIds :
          IcrcPostProduct("alice", payload, id)
    \/ \E id \in ProductIds : IcrcDeleteProduct(id)
    \/ \E caller \in Principals, productId \in ProductIds :
          /\ nCalls < MaxIcrcOrders
          /\ Cardinality(calls) < MaxIcrcInFlight
          /\ IcrcPostOrderCall(caller, productId)
    \/ \E c \in calls, reply \in IcrcReplies, id \in OrderIds :
          IcrcPostOrderResume(c, reply, id)

SpecIcrc == Init /\ [][NextIcrc]_vars

(***************************************************************************)
(* The claims.                                                             *)
(***************************************************************************)
\* the answers a suspended call can get
Replies(c) == {query_blocks(c.block), QueryErr}

IsCompletePurchase(r) == r.op = "completePurchase"

\* C1: every order in persistedOrders was verified as it is stored: verifyPayment
\* returned true for sender = its buyer, receiver = its seller, amount = its price,
\* block = its paid_at_block, memo = its memo.
C1_StoredOrdersWereVerified ==
    \A buyer \in DOMAIN persistedOrders :
        LET o == persistedOrders[buyer]
        IN  [sender |-> buyer, receiver |-> o.seller, amount |-> o.price,
             block |-> o.paid_at_block[1], memo |-> o.memo] \in verified

\* C2: an order is resolved at most once: no order is both expired and completed,
\* none is completed by two calls, none is still pending once resolved; and a
\* verified completePurchase finds the pending order absent only if a timer or a
\* completePurchase took it before.
C2_ResolvedAtMostOnce ==
    /\ \A e \in expired : \A c \in completed : e.ord # c.ord
    /\ \A c1 \in completed : \A c2 \in completed : c1.ord = c2.ord => c1.cid = c2.cid
    /\ \A m \in DOMAIN pendingOrders :
          /\ \A e \in expired : e.ord # pendingOrd[m]
          /\ \A c \in completed : c.ord # pendingOrd[m]
    /\ (/\ IsCompletePurchase(lastResult)
        /\ lastResult.verified
        /\ lastResult.kind = "NotFound"
        /\ lastResult.call.memo \in IssuedMemos)
       => \/ \E e \in expired : e.memo = lastResult.call.memo
          \/ \E c \in completed : c.memo = lastResult.call.memo

\* C2's case: the timer ran while the call was suspended and took the order; the
\* call, its payment verified, then found it absent.
C2_TimerWonTheRace ==
    /\ IsCompletePurchase(lastResult)
    /\ lastResult.verified
    /\ lastResult.kind = "NotFound"
    /\ \E e \in expired :
          e.memo = lastResult.call.memo /\ lastResult.call.cid \in e.inflight

C4_VerifiedCompletionSucceeds ==
    [][\A c \in calls :
          (/\ c.memo \in DOMAIN pendingOrders
           /\ verifyPayment(c.caller, c.seller, c.price, c.memo, query_blocks(c.block))
           /\ completePurchaseResume(c, query_blocks(c.block)))
          => LET order == pendingOrders[c.memo]
             IN  /\ lastResult'.kind = "Ok"
                 /\ lastResult'.val = [order EXCEPT !.status = "Completed",
                                                    !.paid_at_block = Some(c.block)]
                 /\ c.memo \notin DOMAIN pendingOrders'
                 /\ c.caller \in DOMAIN persistedOrders'
                 /\ persistedOrders'[c.caller] = lastResult'.val
                 /\ order.productId \in DOMAIN productsStorage
                 /\ order.productId \in DOMAIN productsStorage'
                 /\ productsStorage'[order.productId].soldAmount =
                       productsStorage[order.productId].soldAmount + 1]_vars

\* C5: a step of completePurchase that returns Ok raises the soldAmount of exactly
\* one product by exactly one; a step of completePurchase that fails, the start
\* of a call, and a timer leave the catalog as it is.
C5_SoldAmountOncePerCompletion ==
    [][/\ \A c \in calls : \A reply \in Replies(c) :
             completePurchaseResume(c, reply)
             => IF lastResult'.kind = "Ok"
                THEN \E id \in DOMAIN productsStorage :
                        productsStorage' =
                           [productsStorage EXCEPT ![id].soldAmount = @ + 1]
                ELSE productsStorage' = productsStorage
       /\ \A t \in BagToSet(timers) : TimerFires(t) => productsStorage' = productsStorage
       /\ nCalls' # nCalls => productsStorage' = productsStorage]_vars

\* C5's case: after a call that failed verification, a call for the same memo
\* returned Ok, and the product was sold once
C5_SoldOnCompletion ==
    /\ IsCompletePurchase(lastResult)
    /\ lastResult.kind = "Ok"
    /\ lastResult.call.id \in DOMAIN productsStorage
    /\ productsStorage[lastResult.call.id].soldAmount = 1
    /\ lastResult.call.memo \in rejected

\* C6: a completePurchase whose verification fails leaves the three stores as they
\* were, and a later completePurchase for that memo, verified while the order is
\* pending, returns Ok.
C6_FailedVerificationThenRetry ==
    [][\A c \in calls : \A reply \in Replies(c) :
          completePurchaseResume(c, reply)
          => /\ ~verifyPayment(c.caller, c.seller, c.price, c.memo, reply)
                => UNCHANGED <<pendingOrders, productsStorage, persistedOrders>>
             /\ (/\ verifyPayment(c.caller, c.seller, c.price, c.memo, reply)
                 /\ c.memo \in rejected
                 /\ c.memo \in DOMAIN pendingOrders)
                => lastResult'.kind = "Ok"]_vars

\* C7: an order stored for a buyer stays stored for that buyer, unchanged, and
\* there are as many stored orders as completePurchase calls that returned Ok.
C7_CompletedOrdersAppendOnly ==
    [][/\ \A buyer \in DOMAIN persistedOrders :
             /\ buyer \in DOMAIN persistedOrders'
             /\ persistedOrders'[buyer] = persistedOrders[buyer]
       /\ Cardinality(DOMAIN persistedOrders') = Cardinality(completed')]_vars

\* C8: createOrder for an id that is not in the catalog returns NotFound and
\* changes no store and no timer.
C8_CreateOrderUnknownProduct ==
    [][\A caller \in Principals : \A id \in ProductIds :
          (id \notin DOMAIN productsStorage /\ createOrder(caller, id))
          => /\ lastResult'.kind = "NotFound"
             /\ UNCHANGED <<pendingOrders, productsStorage, persistedOrders, timers>>]_vars

\* C8's case: createOrder returned NotFound
C8_UnknownProductRefused ==
    /\ lastResult.op = "createOrder"
    /\ lastResult.kind = "NotFound"
    /\ lastResult.id \notin DOMAIN productsStorage

\* the check C9 states: the block at the index is a transfer with this memo, from
\* the caller's address, to the receiver's address, of this amount
DirectlyVerified(caller, receiver, amount, block, memo) ==
    /\ block < Len(ledger)
    /\ LET b == ledger[block + 1]
       IN  /\ b.operation # None
           /\ b.operation[1].kind = "Transfer"
           /\ b.memo = memo
           /\ b.operation[1].from = binaryAddressFromPrincipal(caller)
           /\ b.operation[1].to = binaryAddressFromPrincipal(receiver)
           /\ b.operation[1].amount = amount

\* C9: when the ledger answers, verifyPayment returns true exactly when the block
\* at the index is a transfer with the memo, from the caller's address, to the
\* receiver's address, of the amount, the addresses compared byte by byte.
C9_VerifyIsByteWiseCheck ==
    (lastResult.op = "verifyPayment" /\ lastResult.reply = "Ok")
    => (lastResult.val <=>
          DirectlyVerified(lastResult.caller, lastResult.receiver, lastResult.amount,
                           lastResult.block, lastResult.memo))

\* C10: when query_blocks returns an error, verifyPayment is false, completePurchase
\* returns a failure and the three stores are as they were.
C10_LedgerErrorFailsClosed ==
    [][\A c \in calls :
          completePurchaseResume(c, QueryErr)
          => /\ ~verifyPayment(c.caller, c.seller, c.price, c.memo, QueryErr)
             /\ lastResult'.kind = "NotFound"
             /\ UNCHANGED <<pendingOrders, productsStorage, persistedOrders>>]_vars

\* C10's case: the ledger call failed for a call whose order was pending and paid
C10_LedgerErrorSeen ==
    /\ IsCompletePurchase(lastResult)
    /\ lastResult.reply = "Err"
    /\ lastResult.call.memo \in DOMAIN pendingOrders
    /\ lastResult.call.block < Len(ledger)
    /\ DirectlyVerified(lastResult.call.caller, lastResult.call.seller,
                        lastResult.call.price, lastResult.call.block,
                        lastResult.call.memo)

\* the payment of the suspended call c verifies when the ledger answers now
Verifies(c) ==
    verifyPayment(c.caller, c.seller, c.price, c.memo, query_blocks(c.block))

\* C11: of two completePurchase calls suspended together for the same memo, both
\* with a payment that verifies, the first to resume while the order is pending
\* returns Ok, removes the pending order and counts one sale; a call that resumes
\* after the order was completed returns NotFound and changes no store.
C11_FirstResolverWins ==
    [][/\ \A c \in calls : \A d \in calls \ {c} :
             (/\ d.memo = c.memo
              /\ Verifies(c)
              /\ Verifies(d)
              /\ c.memo \in DOMAIN pendingOrders
              /\ completePurchaseResume(c, query_blocks(c.block)))
             => LET order == pendingOrders[c.memo]
                IN  /\ lastResult'.kind = "Ok"
                    /\ c.memo \notin DOMAIN pendingOrders'
                    /\ order.productId \in DOMAIN productsStorage
                    /\ order.productId \in DOMAIN productsStorage'
                    /\ productsStorage'[order.productId].soldAmount =
                          productsStorage[order.productId].soldAmount + 1
                    /\ Cardinality(completed') = Cardinality(completed) + 1
       /\ \A c \in calls :
             (/\ Verifies(c)
              /\ \E x \in completed : x.memo = c.memo
              /\ completePurchaseResume(c, query_blocks(c.block)))
             => /\ lastResult'.kind = "NotFound"
                /\ UNCHANGED <<pendingOrders, productsStorage, persistedOrders>>]_vars

\* the orders that are pending, by their number
PendingNumbers(f) == {f[m] : m \in DOMAIN f}

AllMemos ==
    {generateCorrelationId(id, p, t) : id \in ProductIds, p \in Principals, t \in Times}

\* C13: when time passes and due timers run, every pending order is eventually
\* not pending; and when a timer has run, the order of its memo is not pending.
C13_ReservationsEnd ==
    /\ \A m \in AllMemos :
          (m \in DOMAIN pendingOrders) ~> (m \notin DOMAIN pendingOrders)
    /\ [][\A t \in BagToSet(timers) :
             TimerFires(t) => t.memo \notin DOMAIN pendingOrders']_vars

\* C13's case: the timers have run, one of them removed an order that was never
\* completed, and nothing is pending
C13_TimerDestroyed ==
    /\ expired # {}
    /\ timers = EmptyBag
    /\ DOMAIN pendingOrders = {}
    /\ nOrders > Cardinality(completed)

\* C14: a completePurchase whose verification fails returns the error kind
\* PaymentVerificationFailed, and one whose payment verified but whose pending
\* order is absent returns NotFound.
C14_VerificationFailureKind ==
    [][\A c \in calls : \A reply \in Replies(c) :
          completePurchaseResume(c, reply)
          => /\ ~verifyPayment(c.caller, c.seller, c.price, c.memo, reply)
                => lastResult'.kind = "PaymentVerificationFailed"
             /\ (/\ verifyPayment(c.caller, c.seller, c.price, c.memo, reply)
                 /\ c.memo \notin DOMAIN pendingOrders)
                => lastResult'.kind = "NotFound"]_vars

\* C15: completePurchase always returns a result, Ok or a typed error, never an
\* exception; when the product of its id is not in the catalog at completion it
\* returns NotFound.
C15_MissingProductIsTypedError ==
    [][\A c \in calls : \A reply \in Replies(c) :
          completePurchaseResume(c, reply)
          => /\ lastResult'.kind \in {"Ok", "NotFound"}
             /\ c.id \notin DOMAIN productsStorage => lastResult'.kind = "NotFound"]_vars

\* C16: after addProduct(payload) by caller, with the id it assigned, getProduct(id)
\* returns the payload's title, description, location, price and attachmentURL,
\* that id, soldAmount 0 and seller = caller; the id was in the catalog before for
\* no product.
C16_AddThenGet ==
    [][\A caller \in Principals, payload \in CatalogPayloads, id \in ProductIds :
          addProduct(caller, payload, id)
          => /\ id \notin DOMAIN productsStorage
             /\ lastResult'.kind = "Ok"
             /\ lastResult'.val.id = id
             /\ getProduct(id)' =
                   [kind |-> "Ok",
                    val |-> [id |-> id, soldAmount |-> 0, seller |-> caller,
                             title |-> payload.title,
                             description |-> payload.description,
                             location |-> payload.location, price |-> payload.price,
                             attachmentURL |-> payload.attachmentURL]]]_vars

\* C16's case: the second product was added by bob, next to another seller's
C16_SecondProductAdded ==
    /\ lastResult.op = "addProduct"
    /\ lastResult.kind = "Ok"
    /\ lastResult.val.seller = "bob"
    /\ Cardinality(DOMAIN productsStorage) = 2
    /\ \E id \in DOMAIN productsStorage : productsStorage[id].seller = "alice"

\* C17: getOrders returns to its caller only the orders stored for that caller.
C17_OwnOrdersOnly ==
    lastResult.op = "getOrders"
    => \A i \in 1..Len(lastResult.val) :
          /\ lastResult.caller \in DOMAIN persistedOrders
          /\ lastResult.val[i] = persistedOrders[lastResult.caller]

\* C18: every product in the catalog has price > 0 and soldAmount >= 0.
C18_PricePositive ==
    \A id \in DOMAIN productsStorage :
        /\ productsStorage[id].price > 0
        /\ productsStorage[id].soldAmount >= 0

\* a required field of the payload is missing or empty
MissingOrEmpty(payload) ==
    \/ DOMAIN payload # {"title", "description", "location", "price", "attachmentURL"}
    \/ payload.title = ""
    \/ payload.description = ""
    \/ payload.location = ""
    \/ payload.attachmentURL = ""

\* C19: addProduct with a payload of which a required field is missing or empty
\* returns InvalidPayload and stores nothing.
C19_InvalidPayloadRefused ==
    [][\A caller \in Principals, payload \in CatalogPayloads, id \in ProductIds :
          (MissingOrEmpty(payload) /\ addProduct(caller, payload, id))
          => /\ lastResult'.kind = "InvalidPayload"
             /\ productsStorage' = productsStorage]_vars

\* C20: getProduct, updateProduct and deleteProduct of an id that is not in the
\* catalog return NotFound and leave the three stores as they are; deleteProduct of
\* an id in the catalog returns the id and removes that product and no other.
C20_UnknownIdAndDelete ==
    [][/\ \A id \in ProductIds :
             (id \notin DOMAIN productsStorage /\ getProductQuery(id))
             => /\ lastResult'.kind = "NotFound"
                /\ UNCHANGED stores
       /\ \A payload \in CatalogProducts :
             (payload.id \notin DOMAIN productsStorage /\ updateProduct(payload))
             => /\ lastResult'.kind = "NotFound"
                /\ UNCHANGED stores
       /\ \A id \in ProductIds :
             deleteProduct(id)
             => IF id \in DOMAIN productsStorage
                THEN /\ lastResult'.kind = "Ok"
                     /\ lastResult'.id = id
                     /\ DOMAIN productsStorage' = DOMAIN productsStorage \ {id}
                     /\ \A x \in DOMAIN productsStorage' :
                           productsStorage'[x] = productsStorage[x]
                     /\ UNCHANGED <<pendingOrders, persistedOrders>>
                ELSE /\ lastResult'.kind = "NotFound"
                     /\ UNCHANGED stores]_vars

\* C20's case: of two products one was deleted, with an order completed and stored
C20_OneOfTwoDeleted ==
    /\ lastResult.op = "deleteProduct"
    /\ lastResult.kind = "Ok"
    /\ Cardinality(DOMAIN productsStorage) = 1
    /\ lastResult.id \notin DOMAIN productsStorage
    /\ DOMAIN persistedOrders # {}

\* C21: every completePurchase call returns: a call suspended at its query_blocks
\* call is eventually no longer suspended, also when the ledger does not answer.
C21_EveryCallReturns ==
    \A n \in 1..MaxLiveOrders :
        (\E c \in calls : c.cid = n) ~> (\A c \in calls : c.cid # n)

\* C22: a timer that runs while an order is pending under its memo is the timer
\* the createOrder of that order set, and the order is 120 seconds old or older;
\* a timer that finds no order under its memo changes no store.
C22_TimerRemovesOwnOrderOnly ==
    [][\A t \in BagToSet(timers) :
          TimerFires(t)
          => IF t.memo \in DOMAIN pendingOrders
             THEN /\ t.due = issuedAt[t.memo] + ORDER_RESERVATION_PERIOD
                  /\ now >= issuedAt[t.memo] + ORDER_RESERVATION_PERIOD
             ELSE UNCHANGED stores]_vars

\* C23: every createOrder that succeeds adds one entry to pendingOrders and
\* leaves the entries that were there as they were.
C23_CreateOrderAddsOne ==
    [][\A caller \in Principals, id \in ProductIds \cup {CollidingId} :
          createOrder(caller, id) /\ lastResult'.kind = "Ok"
          => /\ Cardinality(DOMAIN pendingOrders') = Cardinality(DOMAIN pendingOrders) + 1
             /\ \A m \in DOMAIN pendingOrders :
                   m \in DOMAIN pendingOrders' /\ pendingOrders'[m] = pendingOrders[m]]_vars

\* C24: a completePurchase that succeeds changes the soldAmount of the product its
\* pending order was created for (the order's productId), by one, and of no other
\* product, whatever id the caller passed.
C24_SoldAmountOfOrderedProduct ==
    [][\A c \in calls : \A reply \in Replies(c) :
          completePurchaseResume(c, reply) /\ lastResult'.kind = "Ok"
          => \A p \in DOMAIN productsStorage :
                productsStorage'[p].soldAmount =
                   IF p = pendingOrders[c.memo].productId
                   THEN productsStorage[p].soldAmount + 1
                   ELSE productsStorage[p].soldAmount]_vars

\* C25: a completePurchase that succeeds carries a block index that no completed
\* order stored so far was paid at.
C25_OneOrderPerBlock ==
    [][\A c \in calls : \A reply \in Replies(c) :
          completePurchaseResume(c, reply) /\ lastResult'.kind = "Ok"
          => \A p \in DOMAIN persistedOrders :
                persistedOrders[p].paid_at_block # Some(c.block)]_vars

\* C26: completePurchase is all-or-nothing.  When it returns Ok, the pending entry
\* of its memo is removed, the soldAmount of one product is one higher and nothing
\* else in the catalog has changed, and the completed order is stored under the
\* caller; in every other outcome, the exception of updateSoldAmount included,
\* pendingOrders, productsStorage and persistedOrders are as before.
C26_CompletePurchaseAllOrNothing ==
    [][\A c \in calls : \A reply \in Replies(c) :
          completePurchaseResume(c, reply)
          => IF lastResult'.kind = "Ok"
             THEN /\ c.memo \in DOMAIN pendingOrders
                  /\ pendingOrders' = MapRemove(pendingOrders, c.memo)
                  /\ \E p \in DOMAIN productsStorage :
                        productsStorage' =
                           [productsStorage EXCEPT ![p].soldAmount = @ + 1]
                  /\ persistedOrders' =
                        MapInsert(persistedOrders, c.caller,
                                  [pendingOrders[c.memo] EXCEPT
                                      !.status = "Completed",
                                      !.paid_at_block = Some(c.block)])
             ELSE UNCHANGED stores]_vars

\* C26's case: the product was deleted after createOrder, the payment verified,
\* updateSoldAmount threw, and the order is still pending
C26_ThrowAfterRemove ==
    /\ lastResult.op = "completePurchase"
    /\ lastResult.kind = "Trap"
    /\ lastResult.verified
    /\ lastResult.call.id = "p1"
    /\ productsStorage = EmptyMap
    /\ lastResult.call.memo \in DOMAIN pendingOrders

\* C27: an updateProduct that succeeds leaves the id, the seller and the soldAmount
\* of the stored product as they were; and no step lowers the soldAmount of a
\* product.
C27_UpdateKeepsIdSellerSold ==
    [][/\ \A payload \in CatalogProducts :
             updateProduct(payload) /\ lastResult'.kind = "Ok"
             => /\ productsStorage'[payload.id].id = productsStorage[payload.id].id
                /\ productsStorage'[payload.id].seller = productsStorage[payload.id].seller
                /\ productsStorage'[payload.id].soldAmount =
                      productsStorage[payload.id].soldAmount
       /\ \A p \in DOMAIN productsStorage \cap DOMAIN productsStorage' :
             productsStorage'[p].soldAmount >= productsStorage[p].soldAmount]_vars

C29_PendingLeavesByTimerOrPayment ==
    [][\A m \in DOMAIN pendingOrders :
          m \notin DOMAIN pendingOrders'
          => \/ \E t \in BagToSet(timers) : t.memo = m /\ HttpTimerFires(t)
             \/ \E c \in calls :
                   /\ c.memo = m
                   /\ putOrderResume(c, query_blocks(c.block))
                   /\ lastResult'.verified]_vars

\* C30: POST /orders stores a Completed order and raises the product's soldAmount
\* by one when icrc2_transfer_from returned Ok, and only then: when the transfer
\* returned Err or failed, and when the product does not exist, orders and
\* productsStorage are unchanged.
C30_OrderOnlyAfterTransfer ==
    [][/\ \A c \in calls : \A reply \in IcrcReplies : \A id \in OrderIds :
             IcrcPostOrderResume(c, reply, id)
             => IF reply.kind = "Ok"
                THEN /\ id \notin DOMAIN orders
                     /\ orders' = MapInsert(orders, id,
                                            [productId |-> c.product.id,
                                             price |-> c.product.price,
                                             status |-> "Completed",
                                             seller |-> c.product.seller])
                     /\ productsStorage'[c.product.id].soldAmount =
                           c.product.soldAmount + 1
                ELSE UNCHANGED <<orders, productsStorage>>
       /\ \A caller \in Principals, productId \in ProductIds :
             IcrcPostOrderCall(caller, productId) => UNCHANGED <<orders, productsStorage>>]_vars

\* C30's case: one order went through, and the transfer of the next returned Err
C30_TransferRefused ==
    /\ lastResult.op = "POST /orders"
    /\ lastResult.kind = "TransferErr"
    /\ Cardinality(DOMAIN orders) = 1
    /\ \E p \in DOMAIN productsStorage : productsStorage[p].soldAmount = 1

\* C31: whatever the interleaving of the POST /orders requests, the soldAmount of
\* every product in the catalog is the number of orders stored for that product.
C31_SoldAmountCountsOrders ==
    \A p \in DOMAIN productsStorage :
        productsStorage[p].soldAmount =
           Cardinality({o \in DOMAIN orders : orders[o].productId = p})

====
